---- MODULE Spec2Model ----
(***************************************************************************)
(* Model of the POST /launch-token handler of src/src/index.ts.           *)
(*                                                                         *)
(* Strings the code inspects (ticker, name, URLs) are sequences of        *)
(* one-character strings; error messages are sequences of string parts    *)
(* (a template literal is the sequence of its pieces).  A JavaScript      *)
(* object is a record; an absent optional property is a name that is not  *)
(* in the record's DOMAIN.  SOL amounts are integers in units of          *)
(* 0.00001 SOL.                                                            *)
(***************************************************************************)
EXTENDS Integers, Sequences, FiniteSets, TLC

\* pc[r]        where request r stands: "idle", "handler" (validated), "rejected",
\*              "awaitImage" .. "awaitConfirm" (at an await), "done" (returned)
\* body[r]      the posted JSON body
\* local[r]     the handler's locals assigned so far (mintKeypair, agent,
\*              metadataResponse, tx, blockhash, lastValidBlockHeight, signature)
\* net[r]       the external calls the request has issued, in order
\* response[r] what the request was answered
\* keygen       how many keypairs Keypair.generate has drawn in the process
VARIABLES pc, body, local, net, response, keygen

vars == <<pc, body, local, net, response, keygen>>

\* Number of requests the runtime serves concurrently in SpecConc.
NumRequests == 2

\* ------------------------------------------------------------------ schema
MinNameLen == 1
MaxNameLen == 32
MinTickerLen == 2
MaxTickerLen == 10
MinDescriptionLen == 1
MaxDescriptionLen == 1000
\* 0.0001 SOL
MinLiquidity == 10
MinSlippageBps == 1
MaxSlippageBps == 1000
\* 0.00001 SOL
MinPriorityFee == 1
\* 0.0001 SOL
DefaultLiquidity == 10
DefaultSlippage == 5
\* 0.00005 SOL
DefaultPriorityFee == 5

\* The string of n copies of the character c.
Rep(c, n) == [i \in 1..n |-> c]

UpperAlnum ==
  {"A","B","C","D","E","F","G","H","I","J","K","L","M","N","O","P","Q","R",
   "S","T","U","V","W","X","Y","Z","0","1","2","3","4","5","6","7","8","9"}

HttpPrefix == <<"h","t","t","p",":","/","/">>
HttpsPrefix == <<"h","t","t","p","s",":","/","/">>

StartsWith(s, p) == Len(s) >= Len(p) /\ SubSeq(s, 1, Len(p)) = p

\* pattern "^https?://"
MatchesHttpUrl(s) == StartsWith(s, HttpPrefix) \/ StartsWith(s, HttpsPrefix)

\* pattern "^[A-Z0-9]+$"
MatchesTickerPattern(s) == Len(s) >= 1 /\ \A i \in 1..Len(s) : s[i] \in UpperAlnum

ValidTokenName(s) == Len(s) >= MinNameLen /\ Len(s) <= MaxNameLen

ValidTicker_noPattern(s) == Len(s) >= MinTickerLen /\ Len(s) <= MaxTickerLen

ValidTicker(s) ==
  /\ Len(s) >= MinTickerLen
  /\ Len(s) <= MaxTickerLen
  /\ MatchesTickerPattern(s)

ValidDescription(s) == Len(s) >= MinDescriptionLen /\ Len(s) <= MaxDescriptionLen

OptionFields == {"initialLiquiditySOL", "slippageBps", "priorityFee"}

ValidOptions_noMinimum(o) ==
  /\ DOMAIN o \subseteq OptionFields
  /\ "slippageBps" \in DOMAIN o => o.slippageBps <= MaxSlippageBps

ValidOptions(o) ==
  /\ DOMAIN o \subseteq OptionFields
  /\ "initialLiquiditySOL" \in DOMAIN o => o.initialLiquiditySOL >= MinLiquidity
  /\ "slippageBps" \in DOMAIN o =>
        o.slippageBps >= MinSlippageBps /\ o.slippageBps <= MaxSlippageBps
  /\ "priorityFee" \in DOMAIN o => o.priorityFee >= MinPriorityFee

RequiredFields == {"tokenName", "tokenTicker", "description", "imageUrl", "privateKey"}

ValidRequest(b) ==
  /\ RequiredFields \subseteq DOMAIN b
  /\ ValidTokenName(b.tokenName)
  /\ ValidTicker(b.tokenTicker)
  /\ ValidDescription(b.description)
  /\ MatchesHttpUrl(b.imageUrl)
  /\ "options" \in DOMAIN b => ValidOptions(b.options)

\* ------------------------------------------------------- external libraries
\* Error values as the handler's catch sees them: isError is "instanceof
\* Error", logs is present on the RPC client's SendTransactionError only.
ErrorOf(msg) == [isError |-> TRUE, message |-> msg]

DefaultRpcUrl == HttpsPrefix \o <<"d","e","v","n","e","t">>

\* body.rpcUrl || "https://api.devnet.solana.com"
RpcUrlOrDefault(b) ==
  IF "rpcUrl" \in DOMAIN b /\ b.rpcUrl # <<>> THEN b.rpcUrl ELSE DefaultRpcUrl

\* Keypair.generate(): the n-th draw of the process's random source.
NewKeypair(n) == [secretKey |-> <<"mint-secret", n>>, publicKey |-> <<"mint", n>>]

\* publicKey.toBase58()
ToBase58(pk) == pk[1] \o ToString(pk[2])

\* Secret keys that decode to a wallet keypair, with the wallet they yield.
DecodableSecretKeys == {"skA", "skB"}
WalletOf(sk) ==
  [secretKey |-> sk, publicKey |-> <<"wallet", IF sk = "skA" THEN 1 ELSE 2>>]

NewAgent_lazyWallet(privateKey, rpcUrl) ==
  IF ~MatchesHttpUrl(rpcUrl)
  THEN [ok |-> FALSE,
        error |-> ErrorOf(<<"Endpoint URL must start with http: or https:.">>)]
  ELSE [ok |-> TRUE,
        agent |-> [connection |-> rpcUrl,
                   wallet |-> WalletOf(privateKey),
                   wallet_address |-> WalletOf(privateKey).publicKey]]

\* new SolanaAgentKit(privateKey, rpcUrl, null): the connection is bound to
\* the endpoint and the wallet is decoded from the private key; either throws.
NewAgent(privateKey, rpcUrl) ==
  IF ~MatchesHttpUrl(rpcUrl)
  THEN [ok |-> FALSE,
        error |-> ErrorOf(<<"Endpoint URL must start with http: or https:.">>)]
  ELSE IF privateKey \notin DecodableSecretKeys
  THEN [ok |-> FALSE, error |-> ErrorOf(<<"Non-base58 character">>)]
  ELSE [ok |-> TRUE,
        agent |-> [connection |-> rpcUrl,
                   wallet |-> WalletOf(privateKey),
                   wallet_address |-> WalletOf(privateKey).publicKey]]

\* ---------------------------------------------------------- network log
\* net[r] is the sequence of external calls request r has issued, each with
\* what was sent and, once settled, what came back.
Unsettled ==
  [kind |-> "pending", status |-> 0, statusText |-> "", bodyReadable |-> TRUE,
   content |-> [type |-> "none"]]

Rejected(err) == [kind |-> "rejected", error |-> err]

HttpResponse(status, statusText, readable, content) ==
  [kind |-> "response", status |-> status, statusText |-> statusText,
   bodyReadable |-> readable, content |-> content]

RpcValue(v) == [kind |-> "value", value |-> v]

\* Response.ok
Ok(res) == res.status >= 200 /\ res.status <= 299

Issue(log, call, target, payload) ==
  Append(log, [call |-> call, target |-> target, payload |-> payload,
               settled |-> FALSE, result |-> Unsettled])

Last(log) == log[Len(log)]

\* The value an await on the most recent call yields is available.
Awaited_notAwaited(log) == Len(log) > 0

Awaited(log) == Len(log) > 0 /\ Last(log).settled

\* ------------------------------------------------------------ the handler
ImageBodyUnreadable == ErrorOf(<<"The image body stream failed">>)
BodyUnreadable == ErrorOf(<<"The response body stream failed">>)
NotJson == ErrorOf(<<"Unexpected token in JSON">>)
NoMetadataProperty == ErrorOf(<<"Cannot read properties of undefined (reading name)">>)
NotATransaction == ErrorOf(<<"Failed to deserialize the transaction">>)

PumpIpfsUrl == HttpsPrefix \o <<"p","u","m","p","/","i","p","f","s">>
TradeLocalUrl == HttpsPrefix \o <<"p","o","r","t","a","l","/","t","r","a","d","e">>

\* A property read that yields undefined when the property is absent.
Undefined == "<undefined>"
Prop(obj, field) == IF field \in DOMAIN obj THEN obj[field] ELSE Undefined

\* The multipart form uploadMetadata posts.
UploadForm(tokenName, tokenTicker, description, imageBlob) ==
  [name |-> tokenName, symbol |-> tokenTicker, description |-> description,
   showName |-> "true",
   file |-> [blob |-> imageBlob, filename |-> "token_image.png", type |-> "image/png"]]

MetadataUploadError_statusAndText(res) ==
  ErrorOf(<<"Metadata upload failed: ", ToString(res.status), " - ", res.content.text>>)

\* `Metadata upload failed: ${response.statusText}`
MetadataUploadError(res) == ErrorOf(<<"Metadata upload failed: ", res.statusText>>)

\* options?.field || fallback
OptionOr(b, field, fallback) ==
  IF /\ "options" \in DOMAIN b
     /\ field \in DOMAIN b.options
     /\ b.options[field] # 0
  THEN b.options[field]
  ELSE fallback

\* The JSON body createTokenTransaction posts.
CreateRequestBody(agent, mintKeypair, metadataResponse, b) ==
  [publicKey |-> ToBase58(agent.wallet_address),
   action |-> "create",
   tokenMetadata |-> [name |-> Prop(metadataResponse.metadata, "name"),
                      symbol |-> Prop(metadataResponse.metadata, "symbol"),
                      uri |-> Prop(metadataResponse, "metadataUri")],
   mint |-> ToBase58(mintKeypair.publicKey),
   denominatedInSol |-> "true",
   amount |-> OptionOr(b, "initialLiquiditySOL", DefaultLiquidity),
   slippage |-> OptionOr(b, "slippageBps", DefaultSlippage),
   priorityFee |-> OptionOr(b, "priorityFee", DefaultPriorityFee),
   pool |-> "pump"]

TryCreateRequestBody_optionalChaining(agent, mintKeypair, metadataResponse, b) ==
  [ok |-> TRUE,
   value |-> [publicKey |-> ToBase58(agent.wallet_address),
              action |-> "create",
              tokenMetadata |->
                IF "metadata" \in DOMAIN metadataResponse
                THEN [name |-> Prop(metadataResponse.metadata, "name"),
                      symbol |-> Prop(metadataResponse.metadata, "symbol"),
                      uri |-> Prop(metadataResponse, "metadataUri")]
                ELSE [name |-> Undefined, symbol |-> Undefined,
                      uri |-> Prop(metadataResponse, "metadataUri")],
              mint |-> ToBase58(mintKeypair.publicKey),
              denominatedInSol |-> "true",
              amount |-> OptionOr(b, "initialLiquiditySOL", DefaultLiquidity),
              slippage |-> OptionOr(b, "slippageBps", DefaultSlippage),
              priorityFee |-> OptionOr(b, "priorityFee", DefaultPriorityFee),
              pool |-> "pump"]]

\* Evaluating the request body of createTokenTransaction: reading
\* metadataResponse.metadata.name throws when metadata is undefined, before
\* fetch is called.
TryCreateRequestBody(agent, mintKeypair, metadataResponse, b) ==
  IF "metadata" \notin DOMAIN metadataResponse
  THEN [ok |-> FALSE, error |-> NoMetadataProperty]
  ELSE [ok |-> TRUE,
        value |-> CreateRequestBody(agent, mintKeypair, metadataResponse, b)]

TransactionCreationError_fixedLiteral(res) == ErrorOf(<<"Failed to launch token">>)

\* `Transaction creation failed: ${response.status} - ${errorText}`
TransactionCreationError(res) ==
  ErrorOf(<<"Transaction creation failed: ", ToString(res.status), " - ",
            res.content.text>>)

\* VersionedTransaction.deserialize
Deserialize(bytes) ==
  [message |-> [recentBlockhash |-> bytes.recentBlockhash, payload |-> bytes.payload],
   signatures |-> <<>>]

Sign_firstSignerOnly(tx, signers) ==
  [tx EXCEPT !.signatures = <<[by |-> signers[1].publicKey, over |-> tx.message]>>]

\* tx.sign(signers): one signature per signer, in the order given.
Sign(tx, signers) ==
  [tx EXCEPT !.signatures =
     [i \in 1..Len(signers) |->
        [by |-> signers[i].publicKey, over |-> tx.message]]]

SendOptions ==
  [skipPreflight |-> FALSE, preflightCommitment |-> "confirmed", maxRetries |-> 5]

ConfirmationFailed_unchecked(confirmation) == FALSE

ConfirmationFailed_stringOnly(confirmation) == confirmation.value.err.kind = "string"

\* if (confirmation.value.err)
ConfirmationFailed(confirmation) == confirmation.value.err.kind # "null"

\* `${confirmation.value.err}`
ErrToString(err) == IF err.kind = "string" THEN err.text ELSE "[object Object]"

TransactionFailedError(confirmation) ==
  ErrorOf(<<"Transaction failed: ", ErrToString(confirmation.value.err)>>)

SuccessResponse_wrongUriProperty(signature, mintKeypair, metadataResponse) ==
  [success |-> TRUE,
   data |-> [signature |-> signature,
             mintAddress |-> ToBase58(mintKeypair.publicKey),
             metadataUri |-> Prop(metadataResponse.metadata, "uri")]]

SuccessResponse(signature, mintKeypair, metadataResponse) ==
  [success |-> TRUE,
   data |-> [signature |-> signature,
             mintAddress |-> ToBase58(mintKeypair.publicKey),
             metadataUri |-> Prop(metadataResponse, "metadataUri")]]

FailureResponse_withData(error) ==
  [success |-> FALSE,
   data |-> [signature |-> "", mintAddress |-> "", metadataUri |-> ""],
   error |-> IF error.isError THEN error.message ELSE <<"Unknown error occurred">>]

FailureResponse_withLogs(error) ==
  [success |-> FALSE,
   error |-> IF error.isError THEN error.message ELSE <<"Unknown error occurred">>]
  @@ (IF "logs" \in DOMAIN error THEN [logs |-> error.logs] ELSE <<>>)

FailureResponse(error) ==
  [success |-> FALSE,
   error |-> IF error.isError THEN error.message ELSE <<"Unknown error occurred">>]

\* What the framework answers when the body fails the route's schema.
ValidationErrorResponse == [type |-> "validation", status |-> 422]

\* ------------------------------------------------------------- requests
Requests == 1..NumRequests

BaseRequest ==
  [tokenName |-> <<"D","o","g","e">>,
   tokenTicker |-> <<"D","O","G","E">>,
   description |-> <<"w","o","w">>,
   imageUrl |-> HttpsPrefix \o <<"i","m","g">>,
   privateKey |-> "skA"]

TickerSamples ==
  {<<>>, <<"D">>, <<"X","2">>, Rep("A", MaxTickerLen), Rep("A", MaxTickerLen + 1),
   <<"d","o","g","e">>, <<"D","o","G">>, <<"D","O","$">>, <<"D","O"," ">>}

NameSamples == {<<>>, Rep("n", MaxNameLen), Rep("n", MaxNameLen + 1)}

DescriptionSamples ==
  {<<>>, Rep("d", MaxDescriptionLen), Rep("d", MaxDescriptionLen + 1)}

ImageUrlSamples ==
  {HttpPrefix \o <<"i">>, <<"f","t","p",":","/","/","i">>, <<"x">> \o HttpsPrefix}

RpcUrlSamples ==
  {<<>>, HttpsPrefix \o <<"r","p","c">>, <<"w","s","s",":","/","/","r","p","c">>}

OptionsSamples ==
  {<<>>,
   [slippageBps |-> 50],
   [slippageBps |-> 0],
   [slippageBps |-> 1001],
   [initialLiquiditySOL |-> 9],
   [initialLiquiditySOL |-> 500, priorityFee |-> 1],
   [priorityFee |-> 0],
   [initialLiquiditySOL |-> 10, slippageBps |-> 1000, priorityFee |-> 7]}

\* The bodies a client may post: the base request with one field varied.
RequestBodies ==
  {BaseRequest}
  \cup {[BaseRequest EXCEPT !.tokenTicker = t] : t \in TickerSamples}
  \cup {[BaseRequest EXCEPT !.tokenName = n] : n \in NameSamples}
  \cup {[BaseRequest EXCEPT !.description = d] : d \in DescriptionSamples}
  \cup {[BaseRequest EXCEPT !.imageUrl = u] : u \in ImageUrlSamples}
  \cup {[BaseRequest EXCEPT !.privateKey = k] : k \in {"skB", "garbage"}}
  \cup {[f \in RequiredFields \ {"privateKey"} |-> BaseRequest[f]]}
  \cup {BaseRequest @@ [rpcUrl |-> u] : u \in RpcUrlSamples}
  \cup {BaseRequest @@ [options |-> o] : o \in OptionsSamples}

\* The bodies of the concurrent specification: two callers, and a caller
\* posting twice.
ConcurrentBodies ==
  {BaseRequest,
   [BaseRequest EXCEPT !.privateKey = "skB"] @@ [rpcUrl |-> HttpsPrefix \o <<"r","p","c">>]}

\* ---------------------------------------------------------- environment
\* What each external call may answer.
FetchFailed == ErrorOf(<<"fetch failed">>)
RpcUnreachable == ErrorOf(<<"failed to get recent blockhash">>)
SendFailedWithLogs ==
  [isError |-> TRUE,
   message |-> <<"failed to send transaction: Transaction simulation failed">>,
   logs |-> <<"Program log: Instruction: Create", "Program failed: custom program error">>]
SendFailed == ErrorOf(<<"failed to send transaction: node is behind">>)
ThrownNonError == [isError |-> FALSE, message |-> <<"not an Error instance">>]
BlockHeightExceeded == ErrorOf(<<"block height exceeded">>)

Image(data) == [type |-> "image", data |-> data]
Text(text) == [type |-> "text", text |-> text]
Json(obj) == [type |-> "json", json |-> obj]
Bytes(b) == [type |-> "bytes", bytes |-> b]

EchoedMetadata == [name |-> "Doge", symbol |-> "DOGE"]
UnsignedTx == [wellFormed |-> TRUE, recentBlockhash |-> "placeholder", payload |-> "create"]
Garbage == [wellFormed |-> FALSE, recentBlockhash |-> "", payload |-> ""]

NoErr == [value |-> [err |-> [kind |-> "null", text |-> ""]]]
ObjectErr == [value |-> [err |-> [kind |-> "object", text |-> "InstructionError"]]]
StringErr == [value |-> [err |-> [kind |-> "string", text |-> "AccountInUse"]]]

Environment ==
  [fetchImage |->
     {Rejected(FetchFailed),
      HttpResponse(200, "OK", TRUE, Image("png")),
      HttpResponse(200, "OK", FALSE, Image("png")),
      HttpResponse(404, "Not Found", TRUE, Image("error page"))},
   uploadMetadata |->
     {Rejected(FetchFailed),
      HttpResponse(500, "Internal Server Error", TRUE, Text("upstream down")),
      HttpResponse(403, "Forbidden", TRUE, Text("denied")),
      HttpResponse(200, "OK", FALSE, Text("")),
      HttpResponse(200, "OK", TRUE, Text("<html>")),
      HttpResponse(200, "OK", TRUE, Json([metadataUri |-> "ipfs://abc"])),
      HttpResponse(200, "OK", TRUE, Json([metadata |-> EchoedMetadata])),
      HttpResponse(200, "OK", TRUE,
                   Json([metadata |-> EchoedMetadata, metadataUri |-> "ipfs://abc"])),
      HttpResponse(200, "OK", TRUE,
                   Json([metadata |-> EchoedMetadata, metadataUri |-> "ipfs://def"]))},
   createTokenTransaction |->
     {Rejected(FetchFailed),
      HttpResponse(500, "Internal Server Error", TRUE, Text("oops")),
      HttpResponse(500, "Internal Server Error", TRUE, Text("boom")),
      HttpResponse(400, "Bad Request", TRUE, Text("oops")),
      HttpResponse(500, "Internal Server Error", FALSE, Text("")),
      HttpResponse(200, "OK", FALSE, Bytes(UnsignedTx)),
      HttpResponse(200, "OK", TRUE, Bytes(Garbage)),
      HttpResponse(200, "OK", TRUE, Bytes(UnsignedTx))},
   getLatestBlockhash |->
     {Rejected(RpcUnreachable),
      RpcValue([blockhash |-> "bh1", lastValidBlockHeight |-> 100]),
      RpcValue([blockhash |-> "bh2", lastValidBlockHeight |-> 200])},
   sendTransaction |->
     {Rejected(SendFailedWithLogs), Rejected(SendFailed), Rejected(ThrownNonError),
      RpcValue("sig1"), RpcValue("sig2")},
   confirmTransaction |->
     {Rejected(BlockHeightExceeded), RpcValue(NoErr), RpcValue(ObjectErr),
      RpcValue(StringErr)}]

\* The answers of the concurrent specification: per call, one that lets the
\* request go on and, for the build and the submission, one that ends it.
ConcurrentEnvironment ==
  [fetchImage |-> {HttpResponse(200, "OK", TRUE, Image("png"))},
   uploadMetadata |->
     {HttpResponse(200, "OK", TRUE,
                   Json([metadata |-> EchoedMetadata, metadataUri |-> "ipfs://abc"]))},
   createTokenTransaction |->
     {HttpResponse(500, "Internal Server Error", TRUE, Text("oops")),
      HttpResponse(200, "OK", TRUE, Bytes(UnsignedTx))},
   getLatestBlockhash |->
     {RpcValue([blockhash |-> "bh1", lastValidBlockHeight |-> 100])},
   sendTransaction |-> {Rejected(SendFailed), RpcValue("sig1")},
   confirmTransaction |-> {RpcValue(NoErr)}]

\* -------------------------------------------------------------- actions
Init ==
  /\ pc = [r \in Requests |-> "idle"]
  /\ body = [r \in Requests |-> <<>>]
  /\ local = [r \in Requests |-> <<>>]
  /\ net = [r \in Requests |-> <<>>]
  /\ response = [r \in Requests |-> <<>>]
  /\ keygen = 0

\* The mint keypair request r works with: the handler's own const.
MintKeypairOf_shared(r) == NewKeypair(keygen)

MintKeypairOf(r) == local[r].mintKeypair

Throw_noReturn(r, error) ==
  /\ response' = response
  /\ pc' = [pc EXCEPT ![r] = "done"]

\* catch (error) { return { success: false, error: ... } }
Throw(r, error) ==
  /\ response' = [response EXCEPT ![r] = FailureResponse(error)]
  /\ pc' = [pc EXCEPT ![r] = "done"]

\* A request arrives and the framework checks its body against the schema.
Receive(r, bodies) ==
  /\ pc[r] = "idle"
  /\ \E b \in bodies :
       /\ body' = [body EXCEPT ![r] = b]
       /\ IF ValidRequest(b)
          THEN /\ pc' = [pc EXCEPT ![r] = "handler"]
               /\ UNCHANGED response
          ELSE /\ pc' = [pc EXCEPT ![r] = "rejected"]
               /\ response' = [response EXCEPT ![r] = ValidationErrorResponse]
  /\ UNCHANGED <<local, net, keygen>>

\* The handler up to its first await: the mint keypair, the agent, and
\* uploadMetadata up to fetch(imageUrl).
Start(r) ==
  /\ pc[r] = "handler"
  /\ keygen' = keygen + 1
  /\ LET mintKeypair == NewKeypair(keygen + 1)
         made == NewAgent(body[r].privateKey, RpcUrlOrDefault(body[r]))
     IN IF ~made.ok
        THEN /\ local' = [local EXCEPT ![r] = [mintKeypair |-> mintKeypair]]
             /\ Throw(r, made.error)
             /\ UNCHANGED net
        ELSE /\ local' = [local EXCEPT ![r] =
                            [mintKeypair |-> mintKeypair, agent |-> made.agent]]
             /\ net' = [net EXCEPT ![r] =
                          Issue(net[r], "fetchImage", body[r].imageUrl, <<>>)]
             /\ pc' = [pc EXCEPT ![r] = "awaitImage"]
             /\ UNCHANGED response
  /\ UNCHANGED body

\* An outstanding call of request r settles with one of the answers of env.
Settle(r, env) ==
  /\ \E i \in 1..Len(net[r]) :
       /\ ~net[r][i].settled
       /\ \E res \in env[net[r][i].call] :
            net' = [net EXCEPT ![r][i].settled = TRUE, ![r][i].result = res]
  /\ UNCHANGED <<pc, body, local, response, keygen>>

\* uploadMetadata after the image fetch: the blob, the form, the POST.
AfterImageFetch(r) ==
  /\ pc[r] = "awaitImage"
  /\ Awaited(net[r])
  /\ LET imageResponse == Last(net[r]).result
     IN IF imageResponse.kind = "rejected"
        THEN Throw(r, imageResponse.error) /\ UNCHANGED net
        ELSE IF ~imageResponse.bodyReadable
        THEN Throw(r, ImageBodyUnreadable) /\ UNCHANGED net
        ELSE /\ net' = [net EXCEPT ![r] =
                          Issue(net[r], "uploadMetadata", PumpIpfsUrl,
                                UploadForm(body[r].tokenName, body[r].tokenTicker,
                                           body[r].description, imageResponse.content))]
             /\ pc' = [pc EXCEPT ![r] = "awaitUpload"]
             /\ UNCHANGED response
  /\ UNCHANGED <<body, local, keygen>>

\* uploadMetadata after the POST, then createTokenTransaction up to its fetch.
AfterUpload(r) ==
  /\ pc[r] = "awaitUpload"
  /\ Awaited(net[r])
  /\ LET res == Last(net[r]).result
     IN IF res.kind = "rejected"
        THEN Throw(r, res.error) /\ UNCHANGED <<net, local>>
        ELSE IF ~Ok(res)
        THEN Throw(r, MetadataUploadError(res)) /\ UNCHANGED <<net, local>>
        ELSE IF ~res.bodyReadable
        THEN Throw(r, BodyUnreadable) /\ UNCHANGED <<net, local>>
        ELSE IF res.content.type # "json"
        THEN Throw(r, NotJson) /\ UNCHANGED <<net, local>>
        ELSE LET metadataResponse == res.content.json
             IN /\ local' = [local EXCEPT ![r] =
                               @ @@ [metadataResponse |-> metadataResponse]]
                /\ LET built == TryCreateRequestBody(local[r].agent, MintKeypairOf(r),
                                                     metadataResponse, body[r])
                   IN IF ~built.ok
                      THEN Throw(r, built.error) /\ UNCHANGED net
                      ELSE /\ net' = [net EXCEPT ![r] =
                                        Issue(net[r], "createTokenTransaction",
                                              TradeLocalUrl, built.value)]
                           /\ pc' = [pc EXCEPT ![r] = "awaitBuild"]
                           /\ UNCHANGED response
  /\ UNCHANGED <<body, keygen>>

\* createTokenTransaction after its fetch, the deserialization, then
\* signAndSendTransaction up to getLatestBlockhash.
AfterBuild(r) ==
  /\ pc[r] = "awaitBuild"
  /\ Awaited(net[r])
  /\ LET res == Last(net[r]).result
     IN IF res.kind = "rejected"
        THEN Throw(r, res.error) /\ UNCHANGED <<net, local>>
        ELSE IF ~Ok(res)
        THEN /\ IF res.bodyReadable
                THEN Throw(r, TransactionCreationError(res))
                ELSE Throw(r, BodyUnreadable)
             /\ UNCHANGED <<net, local>>
        ELSE IF ~res.bodyReadable
        THEN Throw(r, BodyUnreadable) /\ UNCHANGED <<net, local>>
        ELSE IF ~(res.content.type = "bytes" /\ res.content.bytes.wellFormed)
        THEN Throw(r, NotATransaction) /\ UNCHANGED <<net, local>>
        ELSE /\ local' = [local EXCEPT ![r] =
                            @ @@ [tx |-> Deserialize(res.content.bytes)]]
             /\ net' = [net EXCEPT ![r] =
                          Issue(net[r], "getLatestBlockhash",
                                local[r].agent.connection, <<>>)]
             /\ pc' = [pc EXCEPT ![r] = "awaitBlockhash"]
             /\ UNCHANGED response
  /\ UNCHANGED <<body, keygen>>

\* signAndSendTransaction after the blockhash: inject it, sign, submit.
AfterBlockhash(r) ==
  /\ pc[r] = "awaitBlockhash"
  /\ Awaited(net[r])
  /\ LET res == Last(net[r]).result
     IN IF res.kind = "rejected"
        THEN Throw(r, res.error) /\ UNCHANGED <<net, local>>
        ELSE LET stamped == [local[r].tx EXCEPT
                               !.message.recentBlockhash = res.value.blockhash]
                 signed == Sign(stamped, <<MintKeypairOf(r), local[r].agent.wallet>>)
             IN /\ local' = [local EXCEPT ![r] =
                               [f \in DOMAIN @ \cup {"blockhash", "lastValidBlockHeight"} |->
                                  CASE f = "tx" -> signed
                                    [] f = "blockhash" -> res.value.blockhash
                                    [] f = "lastValidBlockHeight" ->
                                         res.value.lastValidBlockHeight
                                    [] OTHER -> @[f]]]
                /\ net' = [net EXCEPT ![r] =
                             Issue(net[r], "sendTransaction", local[r].agent.connection,
                                   [tx |-> signed, options |-> SendOptions])]
                /\ pc' = [pc EXCEPT ![r] = "awaitSend"]
                /\ UNCHANGED response
  /\ UNCHANGED <<body, keygen>>

\* signAndSendTransaction after the submission: poll for the confirmation.
AfterSend(r) ==
  /\ pc[r] = "awaitSend"
  /\ Awaited(net[r])
  /\ LET res == Last(net[r]).result
     IN IF res.kind = "rejected"
        THEN Throw(r, res.error) /\ UNCHANGED <<net, local>>
        ELSE /\ local' = [local EXCEPT ![r] = @ @@ [signature |-> res.value]]
             /\ net' = [net EXCEPT ![r] =
                          Issue(net[r], "confirmTransaction", local[r].agent.connection,
                                [signature |-> res.value,
                                 blockhash |-> local[r].blockhash,
                                 lastValidBlockHeight |-> local[r].lastValidBlockHeight])]
             /\ pc' = [pc EXCEPT ![r] = "awaitConfirm"]
             /\ UNCHANGED response
  /\ UNCHANGED <<body, keygen>>

\* signAndSendTransaction after the confirmation, and the handler's return.
AfterConfirm(r) ==
  /\ pc[r] = "awaitConfirm"
  /\ Awaited(net[r])
  /\ LET res == Last(net[r]).result
     IN IF res.kind = "rejected"
        THEN Throw(r, res.error)
        ELSE IF ConfirmationFailed(res.value)
        THEN Throw(r, TransactionFailedError(res.value))
        ELSE /\ response' = [response EXCEPT ![r] =
                               SuccessResponse(local[r].signature, MintKeypairOf(r),
                                               local[r].metadataResponse)]
             /\ pc' = [pc EXCEPT ![r] = "done"]
  /\ UNCHANGED <<body, local, net, keygen>>

\* One request, every body and every answer of the collaborators.
Next ==
  \/ Receive(1, RequestBodies)
  \/ Start(1)
  \/ Settle(1, Environment)
  \/ AfterImageFetch(1)
  \/ AfterUpload(1)
  \/ AfterBuild(1)
  \/ AfterBlockhash(1)
  \/ AfterSend(1)
  \/ AfterConfirm(1)

Spec == Init /\ [][Next]_vars

\* Requests served concurrently, interleaved at every await.
NextConc ==
  \E r \in Requests :
    \/ Receive(r, ConcurrentBodies)
    \/ Start(r)
    \/ Settle(r, ConcurrentEnvironment)
    \/ AfterImageFetch(r)
    \/ AfterUpload(r)
    \/ AfterBuild(r)
    \/ AfterBlockhash(r)
    \/ AfterSend(r)
    \/ AfterConfirm(r)

SpecConc == Init /\ [][NextConc]_vars

\* What the runtime and the collaborators do for a received request: the
\* handler and its continuations run when their await has settled, and every
\* external call eventually settles.
Progress(r) ==
  \/ Start(r)
  \/ Settle(r, ConcurrentEnvironment)
  \/ AfterImageFetch(r)
  \/ AfterUpload(r)
  \/ AfterBuild(r)
  \/ AfterBlockhash(r)
  \/ AfterSend(r)
  \/ AfterConfirm(r)

\* Concurrent requests of one caller posting the same body, under the
\* scheduling above.
NextFair ==
  \E r \in Requests :
    \/ Receive(r, {BaseRequest})
    \/ Progress(r)

FairSpecConc ==
  Init /\ [][NextFair]_vars /\ \A r \in Requests : WF_vars(Progress(r))

\* --------------------------------------------------------------- claims
Calls(r) == [i \in 1..Len(net[r]) |-> net[r][i].call]

Called(r, call) == \E i \in 1..Len(net[r]) : net[r][i].call = call

\* The answer request r got to its (first) call of that name.
Answer(r, call) ==
  net[r][CHOOSE i \in 1..Len(net[r]) : net[r][i].call = call].result

Sent(r, call) ==
  net[r][CHOOSE i \in 1..Len(net[r]) : net[r][i].call = call].payload

Answered(r, call) == Called(r, call) /\ Answer(r, call).kind \notin {"pending"}

HttpOk(r, call) ==
  /\ Answered(r, call)
  /\ Answer(r, call).kind = "response"
  /\ Answer(r, call).status \in 200..299

HttpNotOk(r, call) ==
  /\ Answered(r, call)
  /\ Answer(r, call).kind = "response"
  /\ Answer(r, call).status \notin 200..299

Returned(r) == pc[r] = "done"

Has(obj, field) == field \in DOMAIN obj

UploadSucceeded(r) == HttpOk(r, "uploadMetadata")
BuildSucceeded(r) == HttpOk(r, "createTokenTransaction")
Submitted(r) ==
  Answered(r, "sendTransaction") /\ Answer(r, "sendTransaction").kind = "value"
ConfirmedWithoutError(r) ==
  /\ Answered(r, "confirmTransaction")
  /\ Answer(r, "confirmTransaction").kind = "value"
  /\ Answer(r, "confirmTransaction").value.value.err.kind = "null"

KnownCalls ==
  {"fetchImage", "uploadMetadata", "createTokenTransaction", "getLatestBlockhash",
   "sendTransaction", "confirmTransaction"}

\* C2: success=true is returned only when the upload, the build, the
\* submission and the confirmation (without on-chain error) all succeeded in
\* that request; otherwise the request is reported failed, also when the
\* metadata was already uploaded; and the metadata service is contacted by
\* the one upload only (no compensating call).
C2_NoPartialSuccess ==
  \A r \in Requests :
    /\ Returned(r) =>
         LET all == /\ UploadSucceeded(r)
                    /\ BuildSucceeded(r)
                    /\ Submitted(r)
                    /\ ConfirmedWithoutError(r)
         IN /\ response[r].success => all
            /\ ~all => ~response[r].success /\ Has(response[r], "error")
    /\ \A i \in 1..Len(net[r]) :
         /\ net[r][i].call \in KnownCalls
         /\ net[r][i].target = PumpIpfsUrl => net[r][i].call = "uploadMetadata"
    /\ Cardinality({i \in 1..Len(net[r]) : net[r][i].target = PumpIpfsUrl}) <= 1

C2_Witness ==
  /\ Returned(1)
  /\ UploadSucceeded(1)
  /\ Submitted(1)
  /\ ~ConfirmedWithoutError(1)
  /\ ~response[1].success

ImageFetchFailed(r) ==
  /\ Answered(r, "fetchImage")
  /\ \/ Answer(r, "fetchImage").kind = "rejected"
     \/ HttpNotOk(r, "fetchImage")

\* C3: an image fetch failure (host unreachable, or a non-success status)
\* fails the upload step: the transaction-construction service is never
\* called and nothing is submitted.
C3_ImageFailureShortCircuits ==
  \A r \in Requests :
    ImageFetchFailed(r) =>
      /\ ~Called(r, "createTokenTransaction")
      /\ ~Called(r, "sendTransaction")

BuildAnsweredNotOk(r) == HttpNotOk(r, "createTokenTransaction")

\* C4 as stated: when the transaction-construction service answers with a
\* non-success status, the response is {success:false, error:"Failed to
\* launch token"}, a fixed literal, and no blockhash is fetched and nothing
\* is submitted.
C4_FixedLiteralMessage ==
  \A r \in Requests :
    (Returned(r) /\ BuildAnsweredNotOk(r)) =>
      /\ response[r] = [success |-> FALSE, error |-> <<"Failed to launch token">>]
      /\ ~Called(r, "getLatestBlockhash")
      /\ ~Called(r, "sendTransaction")

\* C4 amended: when the transaction-construction service answers with a
\* non-success status, the response is success=false with the message
\* "Transaction creation failed: <status> - <response text>" built from
\* that answer (the body read error's message when the body cannot be
\* read), without data; no blockhash is fetched and nothing is submitted.
C4_MessageCarriesStatusAndText ==
  \A r \in Requests :
    (Returned(r) /\ BuildAnsweredNotOk(r)) =>
      LET res == Answer(r, "createTokenTransaction")
      IN /\ response[r] =
              [success |-> FALSE,
               error |-> IF res.bodyReadable
                         THEN <<"Transaction creation failed: ",
                                ToString(res.status), " - ", res.content.text>>
                         ELSE <<"The response body stream failed">>]
         /\ ~Called(r, "getLatestBlockhash")
         /\ ~Called(r, "sendTransaction")
         /\ ~Called(r, "confirmTransaction")

C4_Witness ==
  /\ Returned(1)
  /\ BuildAnsweredNotOk(1)
  /\ Answer(1, "createTokenTransaction").status = 500
  /\ response[1].error = <<"Transaction creation failed: ", "500", " - ", "oops">>

OnChainError(r) ==
  /\ Answered(r, "confirmTransaction")
  /\ Answer(r, "confirmTransaction").kind = "value"
  /\ Answer(r, "confirmTransaction").value.value.err.kind # "null"

\* C5: when the confirmation result carries a non-null on-chain error, the
\* response reports failure with an error message and carries no data (no
\* signature), although the submit call returned a signature.
C5_OnChainErrorReportsFailure ==
  \A r \in Requests :
    (Returned(r) /\ OnChainError(r)) =>
      /\ Has(local[r], "signature")
      /\ local[r].signature = Answer(r, "sendTransaction").value
      /\ ~response[r].success
      /\ Has(response[r], "error")
      /\ response[r].error[1] = "Transaction failed: "
      /\ ~Has(response[r], "data")
      /\ ~Has(response[r], "signature")

C5_Witness ==
  /\ Returned(1)
  /\ OnChainError(1)
  /\ Answer(1, "confirmTransaction").value.value.err.kind = "object"
  /\ response[1].error = <<"Transaction failed: ", "[object Object]">>

\* The declared constraints, stated on the request body.
BadTicker(t) ==
  \/ Len(t) < 2
  \/ Len(t) > 10
  \/ \E i \in 1..Len(t) : t[i] \notin UpperAlnum

FailsConstraints(b) ==
  \/ ~(RequiredFields \subseteq DOMAIN b)
  \/ /\ RequiredFields \subseteq DOMAIN b
     /\ \/ BadTicker(b.tokenTicker)
        \/ Len(b.tokenName) \notin 1..32
        \/ Len(b.description) \notin 1..1000
        \/ ~(\/ (Len(b.imageUrl) >= 7 /\ SubSeq(b.imageUrl, 1, 7) = HttpPrefix)
             \/ (Len(b.imageUrl) >= 8 /\ SubSeq(b.imageUrl, 1, 8) = HttpsPrefix))
        \/ /\ Has(b, "options")
           /\ \/ Has(b.options, "initialLiquiditySOL") /\ b.options.initialLiquiditySOL < 10
              \/ Has(b.options, "slippageBps") /\ b.options.slippageBps \notin 1..1000
              \/ Has(b.options, "priorityFee") /\ b.options.priorityFee < 1

\* C6: a request whose fields fail the declared constraints (a ticker with a
\* character outside [A-Z0-9], or shorter than 2 or longer than 10) is
\* rejected before any network call: it issues no call at all, generates no
\* keypair and never enters the handler.
C6_InvalidRejectedBeforeNetwork ==
  \A r \in Requests :
    (pc[r] # "idle" /\ FailsConstraints(body[r])) =>
      /\ pc[r] = "rejected"
      /\ net[r] = <<>>
      /\ local[r] = <<>>
      /\ response[r] = ValidationErrorResponse

C6_Witness ==
  /\ pc[1] = "rejected"
  /\ body[1].tokenTicker = <<"d","o","g","e">>
  /\ net[1] = <<>>

CallOrder ==
  <<"fetchImage", "uploadMetadata", "createTokenTransaction", "getLatestBlockhash",
    "sendTransaction", "confirmTransaction">>

\* C7: within one request the calls are issued in the order image fetch,
\* upload, build, blockhash, submit, confirm; a call is issued only after
\* every earlier call of the request has settled, so at most one call of a
\* request is outstanding at any time.
C7_StrictlySequential ==
  \A r \in Requests :
    /\ Len(net[r]) <= Len(CallOrder)
    /\ Calls(r) = SubSeq(CallOrder, 1, Len(net[r]))
    /\ \A i \in 1..Len(net[r]) : i < Len(net[r]) => net[r][i].settled
    /\ Cardinality({i \in 1..Len(net[r]) : ~net[r][i].settled}) <= 1

C7_Witness ==
  /\ Len(net[1]) = 6
  /\ ~net[1][6].settled
  /\ \A i \in 1..5 : net[1][i].settled

HasMint(r) == Has(local[r], "mintKeypair")

\* C8: under every interleaving, each request works with the mint keypair it
\* generated itself and with the agent built from its own private key and
\* RPC URL: the mint sent to the transaction-construction service, the first
\* signer of the submitted transaction and the mintAddress of the response
\* are that request's own, its RPC calls go to its own endpoint, and no two
\* requests (also with identical bodies) hold, send or report the same mint.
C8_NoSharedState ==
  /\ \A r \in Requests :
       HasMint(r) =>
         LET mint == local[r].mintKeypair
         IN /\ Called(r, "createTokenTransaction") =>
                 /\ Sent(r, "createTokenTransaction").mint = ToBase58(mint.publicKey)
                 /\ Sent(r, "createTokenTransaction").publicKey =
                      ToBase58(WalletOf(body[r].privateKey).publicKey)
            /\ Called(r, "sendTransaction") =>
                 /\ Sent(r, "sendTransaction").tx.signatures[1].by = mint.publicKey
                 /\ Sent(r, "sendTransaction").tx.signatures[2].by =
                      WalletOf(body[r].privateKey).publicKey
            /\ (Returned(r) /\ response[r].success) =>
                 response[r].data.mintAddress = ToBase58(mint.publicKey)
            /\ Has(local[r], "agent") =>
                 /\ local[r].agent.wallet.secretKey = body[r].privateKey
                 /\ local[r].agent.connection =
                      (IF Has(body[r], "rpcUrl") /\ body[r].rpcUrl # <<>>
                       THEN body[r].rpcUrl ELSE DefaultRpcUrl)
            /\ \A i \in 1..Len(net[r]) :
                 net[r][i].call \in {"getLatestBlockhash", "sendTransaction",
                                     "confirmTransaction"} =>
                   net[r][i].target = local[r].agent.connection
  /\ \A r1, r2 \in Requests :
       (r1 # r2 /\ HasMint(r1) /\ HasMint(r2)) =>
         /\ local[r1].mintKeypair # local[r2].mintKeypair
         /\ (Called(r1, "createTokenTransaction") /\ Called(r2, "createTokenTransaction")) =>
              Sent(r1, "createTokenTransaction").mint # Sent(r2, "createTokenTransaction").mint
         /\ (Returned(r1) /\ Returned(r2) /\ response[r1].success /\ response[r2].success) =>
              response[r1].data.mintAddress # response[r2].data.mintAddress

C8_Witness ==
  /\ Returned(1) /\ Returned(2)
  /\ body[1] = body[2]
  /\ response[1].success /\ response[2].success
  /\ response[1].data.mintAddress # response[2].data.mintAddress
  /\ local[1].mintKeypair = NewKeypair(2)

\* C9: on the success path the payload is built from the request's own
\* intermediate results: signature is what the submit call returned,
\* mintAddress is the mint sent to the transaction-construction service and
\* the first signer of the submitted transaction, and metadataUri is the URI
\* the metadata upload returned.
C9_PayloadFromOwnResults ==
  \A r \in Requests :
    (Returned(r) /\ response[r].success) =>
      LET uploaded == Answer(r, "uploadMetadata").content.json
      IN /\ DOMAIN response[r].data = {"signature", "mintAddress", "metadataUri"}
         /\ response[r].data.signature = Answer(r, "sendTransaction").value
         /\ response[r].data.signature = Sent(r, "confirmTransaction").signature
         /\ response[r].data.mintAddress = Sent(r, "createTokenTransaction").mint
         /\ response[r].data.mintAddress =
              ToBase58(Sent(r, "sendTransaction").tx.signatures[1].by)
         /\ Has(uploaded, "metadataUri") =>
              response[r].data.metadataUri = uploaded.metadataUri
         /\ response[r].data.metadataUri =
              Sent(r, "createTokenTransaction").tokenMetadata.uri

C9_Witness ==
  /\ Returned(1)
  /\ response[1].success
  /\ response[1].data =
       [signature |-> "sig2", mintAddress |-> "mint1", metadataUri |-> "ipfs://abc"]

SubmissionFailedWithLogs(r) ==
  /\ Answered(r, "sendTransaction")
  /\ Answer(r, "sendTransaction").kind = "rejected"
  /\ Has(Answer(r, "sendTransaction").error, "logs")

\* C10 as stated: when the failure of the submission carries diagnostic log
\* lines, the failure response carries those lines verbatim beside the error
\* message.
C10_LogsSurfaced ==
  \A r \in Requests :
    (Returned(r) /\ SubmissionFailedWithLogs(r)) =>
      /\ Has(response[r], "error")
      /\ Has(response[r], "logs")
      /\ response[r].logs = Answer(r, "sendTransaction").error.logs

\* C10 amended: when the failure of the submission carries diagnostic log
\* lines, the failure response is exactly {success:false, error:<the
\* failure's message>}: it has no field carrying the log lines.
C10_LogsNotInResponse ==
  \A r \in Requests :
    (Returned(r) /\ SubmissionFailedWithLogs(r)) =>
      /\ DOMAIN response[r] = {"success", "error"}
      /\ ~response[r].success
      /\ response[r].error = Answer(r, "sendTransaction").error.message

C10_Witness ==
  /\ Returned(1)
  /\ SubmissionFailedWithLogs(1)
  /\ Len(Answer(1, "sendTransaction").error.logs) = 2
  /\ ~Called(1, "confirmTransaction")

\* A call that failed: rejected, answered with a non-success HTTP status, or
\* (the confirmation) answered with an on-chain error.
FailedCall(entry) ==
  /\ entry.settled
  /\ \/ entry.result.kind = "rejected"
     \/ entry.result.kind = "response" /\ entry.result.status \notin 200..299
     \/ /\ entry.call = "confirmTransaction"
        /\ entry.result.kind = "value"
        /\ entry.result.value.value.err.kind # "null"

IssuedAtMostOnce(r) ==
  \A i, j \in 1..Len(net[r]) : net[r][i].call = net[r][j].call => i = j

\* C11: no call is retried: each of the six calls is issued at most once per
\* request whatever its outcome, and the first failing call ends the request
\* with a failure response, no later step being issued.
C11_NoRetryFirstFailureEnds ==
  \A r \in Requests :
    /\ IssuedAtMostOnce(r)
    /\ \A i \in 1..Len(net[r]) :
         FailedCall(net[r][i]) =>
           /\ i = Len(net[r])
           /\ Returned(r) => (Has(response[r], "error") /\ ~response[r].success)

UploadAnsweredNotOk(r) == HttpNotOk(r, "uploadMetadata")

InMessage(msg, part) == \E i \in 1..Len(msg) : msg[i] = part

\* C12 as stated: a non-success status of the metadata service fails the
\* request with an error carrying the status and the response text of that
\* call; the transaction-construction service is never called and nothing is
\* submitted.
C12_UploadErrorCarriesStatusAndText ==
  \A r \in Requests :
    (Returned(r) /\ UploadAnsweredNotOk(r)) =>
      LET res == Answer(r, "uploadMetadata")
      IN /\ ~response[r].success
         /\ Has(response[r], "error")
         /\ InMessage(response[r].error, ToString(res.status))
         /\ InMessage(response[r].error, res.content.text)
         /\ ~Called(r, "createTokenTransaction")
         /\ ~Called(r, "sendTransaction")

\* C12 amended: a non-success status of the metadata service fails the
\* request with the error "Metadata upload failed: <status text>", which
\* carries the status text of that call and neither the status code nor the
\* response body; the transaction-construction service is never called and
\* nothing is submitted.
C12_UploadErrorCarriesStatusText ==
  \A r \in Requests :
    (Returned(r) /\ UploadAnsweredNotOk(r)) =>
      LET res == Answer(r, "uploadMetadata")
      IN /\ response[r] =
              [success |-> FALSE,
               error |-> <<"Metadata upload failed: ", res.statusText>>]
         /\ ~Called(r, "createTokenTransaction")
         /\ ~Called(r, "getLatestBlockhash")
         /\ ~Called(r, "sendTransaction")

C12_Witness ==
  /\ Returned(1)
  /\ UploadAnsweredNotOk(1)
  /\ Answer(1, "uploadMetadata").status = 500
  /\ response[1].error = <<"Metadata upload failed: ", "Internal Server Error">>

\* C13: each tuning parameter sent to the transaction-construction service
\* (amount, slippage, priorityFee) is the value the caller supplied in
\* options when it is set, and the fixed default (0.0001 SOL, 5, 0.00005 SOL)
\* when options or the field is absent; a supplied value is never replaced
\* by the default.
C13_TuningParameters ==
  \A r \in Requests :
    Called(r, "createTokenTransaction") =>
      LET sent == Sent(r, "createTokenTransaction")
          supplied(f) == Has(body[r], "options") /\ Has(body[r].options, f)
      IN /\ sent.amount = IF supplied("initialLiquiditySOL")
                          THEN body[r].options.initialLiquiditySOL ELSE 10
         /\ sent.slippage = IF supplied("slippageBps")
                            THEN body[r].options.slippageBps ELSE 5
         /\ sent.priorityFee = IF supplied("priorityFee")
                               THEN body[r].options.priorityFee ELSE 5

C13_Witness ==
  /\ Called(1, "createTokenTransaction")
  /\ Has(body[1], "options")
  /\ body[1].options = [initialLiquiditySOL |-> 500, priorityFee |-> 1]
  /\ Sent(1, "createTokenTransaction").amount = 500
  /\ Sent(1, "createTokenTransaction").slippage = 5
  /\ Sent(1, "createTokenTransaction").priorityFee = 1

\* C14: assuming every external call settles, every validated request
\* eventually returns a response (success or failure), whatever the other
\* requests do; a response, once returned, is never changed or followed by
\* another; and a returned request takes no further step.
C14_EveryRequestReturns ==
  /\ \A r \in Requests :
       (pc[r] = "handler") ~> (Returned(r) /\ Has(response[r], "success"))
  /\ [][\A r \in Requests :
          /\ response[r] # <<>> => response'[r] = response[r]
          /\ Returned(r) => (pc'[r] = pc[r] /\ net'[r] = net[r])]_vars

\* A request that failed, and another that was started after it and
\* succeeded.
C14_Witness ==
  /\ Returned(1)
  /\ ~response[1].success
  /\ Returned(2)
  /\ response[2].success
  /\ local[1].mintKeypair = NewKeypair(1)
  /\ local[2].mintKeypair = NewKeypair(2)

\* C15: the transaction that is submitted carries the blockhash fetched in
\* that request, injected before signing (both signatures are over the
\* message with that blockhash), and is signed by the mint keypair and then
\* the wallet keypair; the blockhash is fetched before the submission; and
\* the confirmation is polled with the signature the submission returned and
\* the blockhash / lastValidBlockHeight pair that was fetched.
C15_SignerOrder ==
  \A r \in Requests :
    /\ Called(r, "sendTransaction") =>
         /\ Answered(r, "getLatestBlockhash")
         /\ Answer(r, "getLatestBlockhash").kind = "value"
         /\ LET latest == Answer(r, "getLatestBlockhash").value
                tx == Sent(r, "sendTransaction").tx
            IN /\ tx.message.recentBlockhash = latest.blockhash
               /\ Len(tx.signatures) = 2
               /\ tx.signatures[1].by = local[r].mintKeypair.publicKey
               /\ tx.signatures[2].by = local[r].agent.wallet.publicKey
               /\ \A i \in 1..Len(tx.signatures) : tx.signatures[i].over = tx.message
               /\ tx.message.payload =
                    Answer(r, "createTokenTransaction").content.bytes.payload
    /\ Called(r, "confirmTransaction") =>
         /\ Answered(r, "sendTransaction")
         /\ Answer(r, "sendTransaction").kind = "value"
         /\ Sent(r, "confirmTransaction") =
              [signature |-> Answer(r, "sendTransaction").value,
               blockhash |-> Answer(r, "getLatestBlockhash").value.blockhash,
               lastValidBlockHeight |->
                 Answer(r, "getLatestBlockhash").value.lastValidBlockHeight]
         /\ Sent(r, "confirmTransaction").blockhash =
              Sent(r, "sendTransaction").tx.message.recentBlockhash

C15_Witness ==
  /\ Called(1, "confirmTransaction")
  /\ Sent(1, "confirmTransaction") =
       [signature |-> "sig1", blockhash |-> "bh2", lastValidBlockHeight |-> 200]
  /\ Sent(1, "sendTransaction").tx.message.recentBlockhash = "bh2"

UndecodablePrivateKey(r) ==
  /\ pc[r] \notin {"idle", "rejected"}
  /\ body[r].privateKey \notin {"skA", "skB"}

\* C16: a request that passes validation but whose privateKey cannot be
\* turned into a wallet keypair ends, at the handler's first step, in a
\* failure response (success=false with an error message) with no network
\* call issued.
C16_BadPrivateKeyFailsBeforeNetwork ==
  \A r \in Requests :
    UndecodablePrivateKey(r) =>
      /\ net[r] = <<>>
      /\ pc[r] \in {"handler", "done"}
      /\ Returned(r) =>
           /\ DOMAIN response[r] = {"success", "error"}
           /\ ~response[r].success
           /\ Len(response[r].error) > 0

C16_Witness ==
  /\ Returned(1)
  /\ body[1].privateKey = "garbage"
  /\ ~response[1].success
  /\ net[1] = <<>>

MalformedUploadAnswer(r) ==
  /\ HttpOk(r, "uploadMetadata")
  /\ Answer(r, "uploadMetadata").bodyReadable
  /\ \/ Answer(r, "uploadMetadata").content.type # "json"
     \/ /\ Answer(r, "uploadMetadata").content.type = "json"
        /\ ~Has(Answer(r, "uploadMetadata").content.json, "metadata")

\* C17: when the metadata service answers with a success status but a body
\* that is not JSON or lacks the metadata object, the request ends with a
\* failure response, the transaction-construction POST is never sent and
\* nothing is submitted.
C17_MalformedUploadAnswerFails ==
  \A r \in Requests :
    MalformedUploadAnswer(r) =>
      /\ ~Called(r, "createTokenTransaction")
      /\ ~Called(r, "getLatestBlockhash")
      /\ ~Called(r, "sendTransaction")
      /\ pc[r] \in {"awaitUpload", "done"}
      /\ Returned(r) =>
           /\ DOMAIN response[r] = {"success", "error"}
           /\ ~response[r].success

C17_Witness ==
  /\ Returned(1)
  /\ MalformedUploadAnswer(1)
  /\ Answer(1, "uploadMetadata").content.type = "json"
  /\ ~response[1].success
  /\ Len(net[1]) = 2

====
